---- MODULE Spec2Model ----
(***************************************************************************)
(* Model of the tenant-scoped data-access layer of the Costa-BB backend:   *)
(* app/repositories/base.py (BaseRepository), the request middleware of    *)
(* app/middleware/project_context.py and the dependencies of app/deps.     *)
(*                                                                         *)
(* The record store is the database seen through one session: one table    *)
(* per model class, rows keyed by a unique id.  A repository is immutable   *)
(* after construction, so one variable `repo` holds the repository the     *)
(* next call is made on; constructing another one replaces it, which gives *)
(* every interleaving of calls on repositories bound to different          *)
(* projects, sessions and models over the same store.                      *)
(***************************************************************************)
EXTENDS Integers, FiniteSets, Sequences, TLC

\* ------------------------------------------------------------------ bounds
NumIds == 2                      \* size of the pool of record ids
MaxTime == 1                     \* datetime.now() yields a value in 1..MaxTime

\* --------------------------------------------------------------- constants
DefaultLimit == 100              \* list(limit=100)
DefaultSkip == 0                 \* list(skip=0)

\* ------------------------------------------------------------ value domains
None == "None"                   \* Python's None where a uuid or object is meant
Absent == "Absent"               \* a keyword argument that was not passed
DeletedNone == 0                 \* deleted_at IS NULL
Ids == 1..NumIds
Times == 1..MaxTime
Projects == {"p1", "p2"}
Sessions == {"s1", "s2"}
Names == {"a", "b"}

\* Model classes: the two project-scoped test models and the users table.
SoftModel == "TestProjectModelWithSoftDelete"
PlainModel == "TestProjectModel"
UserModel == "User"
Models == {SoftModel, PlainModel, UserModel}

\* The mapped attributes of each model class (hasattr(model, a)).
ModelAttrs(m) ==
    CASE m = SoftModel -> {"id", "project_id", "name", "description", "deleted_at"}
      [] m = PlainModel -> {"id", "project_id", "name", "description"}
      [] OTHER -> {"id", "email", "full_name", "is_active", "created_at", "updated_at"}

hasattr(m, a) == a \in ModelAttrs(m)

ProjectModels == {m \in Models : hasattr(m, "project_id")}

VARIABLES
    store,       \* store[m]: the rows of model m's table
    createdBy,   \* createdBy[i]: project_id of the repository that created row i
    repo,        \* the repository the calls are made on, or NoRepo
    last,        \* the last call: operation, arguments, outcome, session calls
    request,     \* the HTTP request being served: header, query and path values
    state,       \* request.state.project_context
    pc,          \* where the request is in its pipeline
    response,    \* what the pipeline produced for the request
    mw,          \* the middleware class installed and its configuration
    called_next, \* how many times the middleware awaited call_next(request)
    db,          \* one run of _get_db_session_context: position, session, calls
    dep          \* one call of a dependency function: its arguments and outcome

repoVars == <<store, createdBy, repo, last>>
reqVars == <<request, state, pc, response>>
mwVars == <<mw, called_next>>
vars == <<store, createdBy, repo, last, request, state, pc, response,
          mw, called_next, db, dep>>

NoRepo == [session |-> None, project_id |-> None, model |-> None,
           has_soft_delete |-> FALSE]

\* A row of model m's table.
Row(m, id, project_id, name, deleted_at) ==
    IF hasattr(m, "deleted_at")
    THEN [id |-> id, project_id |-> project_id, name |-> name, deleted_at |-> deleted_at]
    ELSE [id |-> id, project_id |-> project_id, name |-> name]

AllRows == UNION {store[m] : m \in ProjectModels}
UsedIds == {r.id : r \in AllRows}

\* ------------------------------------------------- BaseRepository.__init__
\* The constructor without its two checks.
RepoInitUnchecked(session, project_id, model) ==
    [raised |-> "",
     repo |-> [session |-> session, project_id |-> project_id, model |-> model,
               has_soft_delete |-> hasattr(model, "deleted_at")]]

\* The outcome of BaseRepository(session, project_id, model).
RepoInit(session, project_id, model) ==
    IF project_id = None
    THEN [raised |-> "ValueError", repo |-> NoRepo]
    ELSE IF ~hasattr(model, "project_id")
    THEN [raised |-> "ValueError", repo |-> NoRepo]
    ELSE [raised |-> "",
          repo |-> [session |-> session, project_id |-> project_id, model |-> model,
                    has_soft_delete |-> hasattr(model, "deleted_at")]]

\* ------------------------------------------------------- query predicates
\* The filter with the tenant predicate left out.
NoProjectFilter(rows, self) == rows

\* query.where(self.model.project_id == self.project_id)
_enforce_project_filter(rows, self) ==
    {r \in rows : r.project_id = self.project_id}

\* The soft delete filter left out.
NoSoftDeleteFilter(rows, self) == rows

\* query.where(self.model.deleted_at.is_(None)) if the model supports it
_apply_soft_delete_filter(rows, self) ==
    IF self.has_soft_delete
    THEN {r \in rows : r.deleted_at = DeletedNone}
    ELSE rows

\* query.where(self.model.id == id)
WhereId(rows, id) == {r \in rows : r.id = id}

\* for key, value in filters.items():
\*     if hasattr(self.model, key): query.where(getattr(self.model, key) == value)
WhereFilters(rows, self, filters) ==
    {r \in rows : \A k \in DOMAIN filters :
                      hasattr(self.model, k) => r[k] = filters[k]}

\* ------------------------------------------------------ keyword arguments
\* **data is a dict: a function whose domain is the set of keys passed.
EmptyDict == [k \in {} |-> None]
Dict1(k, v) == [x \in {k} |-> v]
Without(data, k) == [x \in DOMAIN data \ {k} |-> data[x]]

ProjectIdArgs == {EmptyDict} \cup {Dict1("project_id", p) : p \in Projects}
NameArgs == {EmptyDict} \cup {Dict1("name", n) : n \in Names}
DeletedAtArgs(m) ==
    IF hasattr(m, "deleted_at")
    THEN {EmptyDict} \cup {Dict1("deleted_at", t) : t \in Times \cup {DeletedNone}}
    ELSE {EmptyDict}

\* The **filters a caller passes to list and count: none, a name, a project_id,
\* or a key the models do not have.
FilterArgs == NameArgs \cup (ProjectIdArgs \cup {Dict1("status", "draft")})

\* The dicts a caller passes to create: name is NOT NULL, so it is always given.
CreateArgs(m) ==
    {p @@ n @@ d : p \in ProjectIdArgs, n \in NameArgs \ {EmptyDict},
                   d \in DeletedAtArgs(m)}

\* The dicts a caller passes to update: at least one column besides project_id.
UpdateArgs(m) ==
    {p @@ n @@ d : p \in ProjectIdArgs, n \in NameArgs, d \in DeletedAtArgs(m)}
    \ ProjectIdArgs

\* _check_project_id that keeps a project_id the caller passed, whatever it is.
KeepProjectId(data, self) ==
    IF "project_id" \in DOMAIN data
    THEN [raised |-> "", data |-> data]
    ELSE [raised |-> "", data |-> data @@ Dict1("project_id", self.project_id)]

\* _check_project_id(data): the data with project_id enforced, or a raise
_check_project_id(data, self) ==
    IF "project_id" \in DOMAIN data
    THEN IF data["project_id"] # self.project_id
         THEN [raised |-> "ValueError", data |-> data]
         ELSE [raised |-> "", data |-> data]
    ELSE [raised |-> "", data |-> data @@ Dict1("project_id", self.project_id)]

\* self.model(**data) with the server-generated primary key id
NewInstance(m, id, data) ==
    Row(m, id, data["project_id"], data["name"],
        IF "deleted_at" \in DOMAIN data THEN data["deleted_at"] ELSE DeletedNone)

\* UPDATE ... SET **data on one row
SetValues(r, data) ==
    [k \in DOMAIN r |-> IF k \in DOMAIN data THEN data[k] ELSE r[k]]

\* ------------------------------------------------------------ call records
\* What a call was (operation and arguments) and what it did: the exception it
\* raised ("" if none), the kind of value returned, the rows returned, the number
\* returned, and the session methods it awaited, in order.
Call(op, id, include_deleted, data, page, raised, value, rows, count, calls) ==
    [op |-> op, id |-> id, include_deleted |-> include_deleted, data |-> data,
     page |-> page, raised |-> raised, value |-> value, rows |-> rows,
     count |-> count, calls |-> calls]

NoPage == <<DefaultSkip, DefaultLimit>>
\* The value field of a call that raised: nothing was returned.
NoReturn == "NoReturn"

\* What update and soft_delete return: the refreshed instance or None
Returned(r) ==
    IF r.raised # "" THEN NoReturn
    ELSE IF r.rows = {} THEN None ELSE "instance"

NoCall == Call("none", 0, FALSE, EmptyDict, NoPage, "", None, {}, 0, <<>>)

\* --------------------------------------------------------- read operations
\* get_by_id: the rows the SELECT yields (at most one: id is the primary key)
get_by_id(self, table, id, include_deleted) ==
    LET q1 == WhereId(table, id)
        q2 == _enforce_project_filter(q1, self)
    IN  IF ~include_deleted THEN _apply_soft_delete_filter(q2, self) ELSE q2

\* list: the rows matching the query before OFFSET/LIMIT
list_query(self, table, include_deleted, filters) ==
    LET q1 == _enforce_project_filter(table, self)
        q2 == WhereFilters(q1, self, filters)
    IN  IF ~include_deleted THEN _apply_soft_delete_filter(q2, self) ELSE q2

\* query.offset(skip).limit(limit): how many rows a page holds
PageSize(n, skip, limit) ==
    LET rest == IF n > skip THEN n - skip ELSE 0
    IN  IF rest < limit THEN rest ELSE limit

\* count: SELECT count(*) with the same predicates as list
count_query(self, table, include_deleted, filters) ==
    LET q1 == _enforce_project_filter(table, self)
        q2 == WhereFilters(q1, self, filters)
    IN  IF ~include_deleted THEN _apply_soft_delete_filter(q2, self) ELSE q2

\* exists: the ids the SELECT yields
exists_query(self, table, id, include_deleted) ==
    LET q1 == WhereId(table, id)
        q2 == _enforce_project_filter(q1, self)
    IN  IF ~include_deleted THEN _apply_soft_delete_filter(q2, self) ELSE q2

\* -------------------------------------------------------- write operations
\* update's WHERE without the deleted_at IS NULL predicate.
UpdateMatchDeleted(self, table, id) ==
    {r \in table : r.id = id /\ r.project_id = self.project_id}

\* update's WHERE without the tenant predicate.
UpdateMatchAnyProject(self, table, id) ==
    {r \in table : /\ r.id = id
                   /\ (self.has_soft_delete => r.deleted_at = DeletedNone)}

\* update's WHERE: and_(id == id, project_id == self.project_id), and
\* deleted_at IS NULL when the model supports soft delete
UpdateMatch(self, table, id) ==
    {r \in table : /\ r.id = id
                   /\ r.project_id = self.project_id
                   /\ (self.has_soft_delete => r.deleted_at = DeletedNone)}

\* update that passes a caller's project_id on to the UPDATE's values.
UpdateUnchecked(self, table, id, data) ==
    LET matched == UpdateMatch(self, table, id)
        updated == {SetValues(r, data) : r \in matched}
    IN  [raised |-> "",
         table |-> (table \ matched) \cup updated,
         rows |-> updated,
         calls |-> IF updated # {} THEN <<"execute", "refresh">> ELSE <<"execute">>]

\* update(id, **data): exception, new table, returned rows, session calls
update(self, table, id, data) ==
    IF "project_id" \in DOMAIN data /\ data["project_id"] # self.project_id
    THEN [raised |-> "ValueError", table |-> table, rows |-> {}, calls |-> <<>>]
    ELSE LET values == IF "project_id" \in DOMAIN data
                       THEN Without(data, "project_id") ELSE data
             matched == UpdateMatch(self, table, id)
             updated == {SetValues(r, values) : r \in matched}
         IN  [raised |-> "",
              table |-> (table \ matched) \cup updated,
              rows |-> updated,
              calls |-> IF updated # {} THEN <<"execute", "refresh">>
                        ELSE <<"execute">>]

\* soft_delete without the check that the model supports it.
SoftDeleteUnguarded(self, table, id, now) ==
    update(self, table, id, Dict1("deleted_at", now))

\* soft_delete(id), where now is the value of datetime.now(timezone.utc)
soft_delete(self, table, id, now) ==
    IF ~self.has_soft_delete
    THEN [raised |-> "AttributeError", table |-> table, rows |-> {}, calls |-> <<>>]
    ELSE update(self, table, id, Dict1("deleted_at", now))

\* delete's WHERE without the tenant predicate.
DeleteMatchAnyProject(self, table, id) == {r \in table : r.id = id}

\* delete's WHERE: and_(id == id, project_id == self.project_id)
DeleteMatch(self, table, id) ==
    {r \in table : r.id = id /\ r.project_id = self.project_id}

\* delete(id): new table, whether a row was deleted, session calls
delete(self, table, id) ==
    LET instance == DeleteMatch(self, table, id)
    IN  IF instance # {}
        THEN [table |-> table \ instance, value |-> "True",
              calls |-> <<"execute", "delete", "flush">>]
        ELSE [table |-> table, value |-> "False", calls |-> <<"execute">>]

\* create(**data) with the generated id: exception, new table, instance, calls
create(self, table, id, data) ==
    LET checked == _check_project_id(data, self)
    IN  IF checked.raised # ""
        THEN [raised |-> checked.raised, table |-> table, rows |-> {}, calls |-> <<>>]
        ELSE LET instance == NewInstance(self.model, id, checked.data)
             IN  [raised |-> "", table |-> table \cup {instance},
                  rows |-> {instance}, calls |-> <<"add", "flush", "refresh">>]

\* ------------------------------------------------------- request pipeline
\* The strings a client can send as a project id, and what uuid.UUID(s) makes of
\* them: the canonical form, a form uuid.UUID also accepts (braces are stripped),
\* and strings that raise ValueError.
UuidP1 == "11111111-1111-1111-1111-111111111111"
UuidP1Braces == "{11111111-1111-1111-1111-111111111111}"
UuidP2 == "22222222-2222-2222-2222-222222222222"
NotUuid == "not-a-uuid"
SourceValues == {Absent, "", NotUuid, UuidP1, UuidP1Braces, UuidP2}

\* uuid.UUID(s): the UUID, or "ValueError"
UUID(s) ==
    CASE s \in {UuidP1, UuidP1Braces} -> "p1"
      [] s = UuidP2 -> "p2"
      [] OTHER -> "ValueError"

\* Python truthiness of an optional string: None and "" are falsy
Truthy(s) == s # Absent /\ s # ""

\* The two ProjectContext dataclasses of the code base.
ContextClass == "app.deps.context.ProjectContext"
ProjectClass == "app.deps.project.ProjectContext"

\* request.state.project_context; cls "unset" when the attribute does not exist
NoContext == [cls |-> "unset", project_id |-> None]
ProjectContext(cls, project_id) == [cls |-> cls, project_id |-> project_id]

Http(status, detail) == [status |-> status, detail |-> detail, repo |-> NoRepo]
NoResponse == Http(0, "")

\* A source reader that skips a value that is not a UUID instead of rejecting it
FromSourceLenient(project_id, s) ==
    IF project_id # None THEN project_id
    ELSE IF Truthy(s) /\ UUID(s) # "ValueError" THEN UUID(s) ELSE None

\* One source of ProjectContextMiddleware.dispatch: given the id found so far,
\* the id after looking at value s, or "HTTP400" when s is not a UUID.
FromSource(project_id, s) ==
    IF project_id # None THEN project_id
    ELSE IF Truthy(s)
         THEN IF UUID(s) = "ValueError" THEN "HTTP400" ELSE UUID(s)
         ELSE None

\* A dispatch that looks at the query parameter before the header
dispatchQueryFirst(req, st) ==
    LET q == FromSource(None, req.query)
        h == IF q = "HTTP400" THEN q ELSE FromSource(q, req.header)
        p == IF h = "HTTP400" THEN h ELSE FromSource(h, req.path)
    IN  IF p = "HTTP400"
        THEN [raised |-> Http(400, "Invalid project ID format"), state |-> st,
              call_next |-> FALSE]
        ELSE [raised |-> NoResponse,
              state |-> IF p # None THEN ProjectContext(ContextClass, p) ELSE st,
              call_next |-> TRUE]

\* A dispatch that rejects a request without a project id
dispatchRequired(req, st) ==
    LET h == FromSource(None, req.header)
        q == IF h = "HTTP400" THEN h ELSE FromSource(h, req.query)
        p == IF q = "HTTP400" THEN q ELSE FromSource(q, req.path)
    IN  IF p = "HTTP400" \/ p = None
        THEN [raised |-> Http(400, "Invalid project ID format"), state |-> st,
              call_next |-> FALSE]
        ELSE [raised |-> NoResponse, state |-> ProjectContext(ContextClass, p),
              call_next |-> TRUE]

\* ProjectContextMiddleware.dispatch: what it raises, the request.state it leaves
\* and whether call_next was awaited.
dispatch(req, st) ==
    LET h == FromSource(None, req.header)
        q == IF h = "HTTP400" THEN h ELSE FromSource(h, req.query)
        p == IF q = "HTTP400" THEN q ELSE FromSource(q, req.path)
    IN  IF p = "HTTP400"
        THEN [raised |-> Http(400, "Invalid project ID format"), state |-> st,
              call_next |-> FALSE]
        ELSE [raised |-> NoResponse,
              state |-> IF p # None THEN ProjectContext(ContextClass, p) ELSE st,
              call_next |-> TRUE]

\* The middleware classes: ProjectContextMiddleware, and the class built by
\* create_project_context_middleware(require_project_id, default_project_id).
PlainMiddleware == "ProjectContextMiddleware"
ConfiguredMiddleware == "ConfiguredProjectContextMiddleware"
Middleware(class, require, default) ==
    [class |-> class, require_project_id |-> require, default_project_id |-> default]
NoMiddleware == Middleware(None, FALSE, None)
Middlewares ==
    {Middleware(PlainMiddleware, FALSE, None)}
    \cup {Middleware(ConfiguredMiddleware, r, d) :
             r \in BOOLEAN, d \in Projects \cup {None}}

NoRequest == [header |-> Absent, query |-> Absent, path |-> Absent, model |-> None]

\* A configured dispatch that falls back to the default before it looks at
\* require_project_id
configuredDefaultFirst(req, st, require_project_id, default_project_id) ==
    LET h == FromSource(None, req.header)
        q == IF h = "HTTP400" THEN h ELSE FromSource(h, req.query)
        p == IF q = "HTTP400" THEN q ELSE FromSource(q, req.path)
    IN  IF p = "HTTP400"
        THEN [raised |-> Http(400, "Invalid project ID format"), state |-> st,
              call_next |-> FALSE]
        ELSE IF p = None /\ default_project_id # None
        THEN [raised |-> NoResponse,
              state |-> ProjectContext(ContextClass, default_project_id),
              call_next |-> TRUE]
        ELSE IF p = None /\ require_project_id
        THEN [raised |-> Http(400, "Project ID is required."), state |-> st,
              call_next |-> FALSE]
        ELSE [raised |-> NoResponse,
              state |-> IF p # None THEN ProjectContext(ContextClass, p) ELSE st,
              call_next |-> TRUE]

\* ConfiguredProjectContextMiddleware.dispatch: as dispatch, then the handling of
\* a missing project id by require_project_id and default_project_id.
configured_dispatch(req, st, require_project_id, default_project_id) ==
    LET h == FromSource(None, req.header)
        q == IF h = "HTTP400" THEN h ELSE FromSource(h, req.query)
        p == IF q = "HTTP400" THEN q ELSE FromSource(q, req.path)
    IN  IF p = "HTTP400"
        THEN [raised |-> Http(400, "Invalid project ID format"), state |-> st,
              call_next |-> FALSE]
        ELSE IF p = None /\ require_project_id
        THEN [raised |-> Http(400, "Project ID is required."), state |-> st,
              call_next |-> FALSE]
        ELSE LET project_id == IF p = None /\ default_project_id # None
                               THEN default_project_id ELSE p
             IN  [raised |-> NoResponse,
                  state |-> IF project_id # None
                            THEN ProjectContext(ContextClass, project_id) ELSE st,
                  call_next |-> TRUE]

\* app.deps.project.get_project_context(request): the HTTPException it raises
\* (status 0 if none) and the context it returns
project_get_project_context(st) ==
    IF st.cls = "unset"
    THEN [raised |-> Http(400, "Project ID is required."), context |-> NoContext]
    ELSE IF st.cls # ProjectClass
    THEN [raised |-> Http(500, "Invalid project context configuration."),
          context |-> NoContext]
    ELSE IF st.project_id = None
    THEN [raised |-> Http(400, "Project ID is required but was not provided."),
          context |-> NoContext]
    ELSE [raised |-> NoResponse, context |-> st]

\* A repository class whose __init__ raises an exception that is not a
\* ValueError
BrokenRepository == "BrokenRepository"
RepositoryClasses == Models \cup {BrokenRepository}

\* repository_class(session, project_id): the class binds its model and calls
\* BaseRepository.__init__
repository_class(cls, session, project_id) ==
    IF cls = BrokenRepository
    THEN [raised |-> "RuntimeError", repo |-> NoRepo]
    ELSE RepoInit(session, project_id, cls)

\* The factory of get_repository_factory(repository_class), where the repository
\* class binds model m: the response carrying the repository, or HTTP 500
factory(session, context, m) ==
    LET r == repository_class(m, session, context.project_id)
    IN  IF r.raised = "ValueError"
        THEN Http(500, "Failed to initialize repository")
        ELSE IF r.raised # ""
        THEN Http(500, "Failed to create repository instance.")
        ELSE [status |-> 200, detail |-> "", repo |-> r.repo]

\* Resolving Depends(factory): get_project_context first, then the factory body
resolve_factory(st, session, m) ==
    LET c == project_get_project_context(st)
    IN  IF c.raised.status # 0 THEN c.raised ELSE factory(session, c.context, m)

\* ------------------------------------------------- database session context
\* One run of _get_db_session_context: where it is, the session it holds, the
\* exception in flight, the calls it made in order, the log records it wrote.
\* Exceptions: the classes the except clauses tell apart. SQLAlchemyError and
\* HTTPException are subclasses of Exception; asyncio.CancelledError is a
\* BaseException that is not an Exception.
Exc(type) == [type |-> type, status |-> 0, detail |-> ""]
NoExc == Exc("none")
HTTPException(status, detail) == [type |-> "HTTPException", status |-> status, detail |-> detail]
SQLAlchemyError == Exc("SQLAlchemyError")
OtherException == Exc("Exception")
CancelledError == Exc("CancelledError")
IsSQLAlchemyError(e) == e.type = "SQLAlchemyError"
IsException(e) == e.type \in {"SQLAlchemyError", "Exception", "HTTPException"}

DatabaseFailed == "Database operation failed. Please try again later."
UnexpectedError == "An unexpected error occurred. Please try again later."

\* What the calls awaited inside the async with block can do: return, or raise
\* a SQLAlchemyError, another Exception, or be cancelled.
AwaitOutcomes == {NoExc, SQLAlchemyError, OtherException, CancelledError}
\* What the consumer's body can do: finish, or raise one of these
BodyOutcomes == AwaitOutcomes \cup {HTTPException(404, "Not found")}
\* What session.close() can do: return or raise an Exception
CloseOutcomes == {NoExc, SQLAlchemyError, OtherException}
\* The two ways in: the context manager itself, or the FastAPI dependency
\* get_db_session that wraps it and hands the same session on.
EntryPoints == {"_get_db_session_context", "get_db_session"}

NoDb == [pc |-> "idle", via |-> None, session |-> None, exc |-> NoExc,
         events |-> <<>>, log |-> <<>>,
         enter_exc |-> NoExc, body_exc |-> NoExc, commit_exc |-> NoExc,
         close_exc |-> NoExc]

\* A generator that goes straight from the yield to leaving the async with block
AfterYieldNoCommit(thrown) == "aexit"

\* After the yield: commit when the consumer finished, leave the async with
\* block when the consumer's exception was thrown in at the yield.
AfterYield(thrown) == IF thrown = NoExc THEN "commit" ELSE "aexit"

\* Except clauses that map the exception but never roll back
ExceptNoRollback(exc, session) ==
    IF IsSQLAlchemyError(exc)
    THEN [raised |-> HTTPException(500, DatabaseFailed), calls |-> <<>>,
          log |-> <<"error">>]
    ELSE IF IsException(exc)
    THEN [raised |-> HTTPException(500, UnexpectedError), calls |-> <<>>,
          log |-> <<"error">>]
    ELSE [raised |-> exc, calls |-> <<>>, log |-> <<>>]

\* Except clauses that call rollback without looking at session
ExceptAlwaysRollback(exc, session) ==
    IF IsSQLAlchemyError(exc)
    THEN [raised |-> HTTPException(500, DatabaseFailed), calls |-> <<"rollback">>,
          log |-> <<"error">>]
    ELSE IF IsException(exc)
    THEN [raised |-> HTTPException(500, UnexpectedError), calls |-> <<"rollback">>,
          log |-> <<"error">>]
    ELSE [raised |-> exc, calls |-> <<>>, log |-> <<>>]

\* Except clauses with an 'except HTTPException' that rolls back and re-raises
ExceptPassesHttp(exc, session) ==
    LET rollback == IF session # None THEN <<"rollback">> ELSE <<>>
    IN  IF IsSQLAlchemyError(exc)
        THEN [raised |-> HTTPException(500, DatabaseFailed), calls |-> rollback,
              log |-> <<"error">>]
        ELSE IF exc.type = "HTTPException"
        THEN [raised |-> exc, calls |-> rollback, log |-> <<>>]
        ELSE IF IsException(exc)
        THEN [raised |-> HTTPException(500, UnexpectedError), calls |-> rollback,
              log |-> <<"error">>]
        ELSE [raised |-> exc, calls |-> <<>>, log |-> <<>>]

\* The except clauses of _get_db_session_context for the exception leaving the
\* try block: what is raised instead, the calls made on the session, the log
\* records written. An exception no clause matches stays in flight.
ExceptClause(exc, session) ==
    LET rollback == IF session # None THEN <<"rollback">> ELSE <<>>
    IN  IF IsSQLAlchemyError(exc)
        THEN [raised |-> HTTPException(500, DatabaseFailed), calls |-> rollback,
              log |-> <<"error">>]
        ELSE IF IsException(exc)
        THEN [raised |-> HTTPException(500, UnexpectedError), calls |-> rollback,
              log |-> <<"error">>]
        ELSE [raised |-> exc, calls |-> <<>>, log |-> <<>>]

\* A finally clause that never closes the session
FinallyNoClose(session, closing) ==
    [raised |-> NoExc, calls |-> <<>>, log |-> <<>>]

\* A finally clause that lets the error of close() out
FinallyPropagates(session, closing) ==
    IF session # None
    THEN [raised |-> closing, calls |-> <<"close">>, log |-> <<>>]
    ELSE [raised |-> NoExc, calls |-> <<>>, log |-> <<>>]

\* The finally clause: close the session if there is one; an Exception raised
\* by close() is logged as a warning and not raised.
FinallyClause(session, closing) ==
    IF session # None
    THEN [raised |-> NoExc, calls |-> <<"close">>,
          log |-> IF IsException(closing) THEN <<"warning">> ELSE <<>>]
    ELSE [raised |-> NoExc, calls |-> <<>>, log |-> <<>>]

\* ------------------------------------------------------ dependency functions
\* No dependency function is being called
NoDep == [fn |-> None]

\* What request.state.project_context can hold: nothing, an instance of either
\* ProjectContext dataclass (project_id None when __post_init__ was bypassed),
\* or a value of another type such as a dict
DictClass == "dict"
StateValues ==
    {NoContext}
    \cup {ProjectContext(c, p) : c \in {ContextClass, ProjectClass, DictClass},
                                p \in Projects \cup {None}}

ContextNotAvailable ==
    "Project context not available. Please ensure middleware is configured."

\* A get_project_context that answers 400 when the attribute is missing
contextMissingIs400(st, unexpected) ==
    IF unexpected
    THEN [raised |-> HTTPException(500, "Failed to extract project context."),
          context |-> NoContext]
    ELSE IF st.cls = "unset"
    THEN [raised |-> HTTPException(400, "Project ID is required."),
          context |-> NoContext]
    ELSE IF st.cls # ContextClass
    THEN [raised |-> HTTPException(500, "Invalid project context configuration."),
          context |-> NoContext]
    ELSE IF st.project_id = None
    THEN [raised |-> HTTPException(400, "Project ID is required but was not provided."),
          context |-> NoContext]
    ELSE [raised |-> NoExc, context |-> st]

\* app.deps.context.get_project_context(request): the exception it raises and
\* the context it returns. unexpected: an Exception other than HTTPException is
\* raised inside the try block (hasattr on request.state raising).
context_get_project_context(st, unexpected) ==
    IF unexpected
    THEN [raised |-> HTTPException(500, "Failed to extract project context."),
          context |-> NoContext]
    ELSE IF st.cls = "unset"
    THEN [raised |-> HTTPException(500, ContextNotAvailable),
          context |-> NoContext]
    ELSE IF st.cls # ContextClass
    THEN [raised |-> HTTPException(500, "Invalid project context configuration."),
          context |-> NoContext]
    ELSE IF st.project_id = None
    THEN [raised |-> HTTPException(400, "Project ID is required but was not provided."),
          context |-> NoContext]
    ELSE [raised |-> NoExc, context |-> st]

\* app.deps.context.get_project_id(request)
context_get_project_id(st, unexpected) ==
    LET c == context_get_project_context(st, unexpected)
    IN  [raised |-> c.raised,
         project_id |-> IF c.raised = NoExc THEN c.context.project_id ELSE None]

\* A get_repository that wraps a ValueError as the factory does
getRepositoryWraps(cls, session, project_id) ==
    LET r == repository_class(cls, session, project_id)
    IN  IF r.raised = "ValueError"
        THEN [raised |-> HTTPException(500, "Failed to initialize repository"),
              repo |-> NoRepo]
        ELSE IF r.raised # ""
        THEN [raised |-> HTTPException(500, "Failed to create repository instance."),
              repo |-> NoRepo]
        ELSE [raised |-> NoExc, repo |-> r.repo]

\* get_repository(repository_class, session, project_id): a ValueError is logged
\* and re-raised, any other exception becomes HTTPException 500
get_repository(cls, session, project_id) ==
    LET r == repository_class(cls, session, project_id)
    IN  IF r.raised = "ValueError"
        THEN [raised |-> Exc("ValueError"), repo |-> NoRepo]
        ELSE IF r.raised # ""
        THEN [raised |-> HTTPException(500, "Failed to create repository instance."),
              repo |-> NoRepo]
        ELSE [raised |-> NoExc, repo |-> r.repo]

\* The most values of project_id a query string repeats
MaxQueryValues == 2

\* The strings a header, a query value or a path parameter can hold
StringValues == SourceValues \ {Absent}
\* request.query_params.getlist("project_id")
QueryLists == UNION {[1..n -> StringValues] : n \in 0..MaxQueryValues}

\* uuid.UUID(raw) with ValueError turned into HTTPException 400
ParseProjectId(raw) ==
    IF UUID(raw) = "ValueError"
    THEN [raised |-> HTTPException(400, "Invalid project ID format"), value |-> None]
    ELSE [raised |-> NoExc, value |-> UUID(raw)]

\* get_project_id_from_header(x_project_id); Absent is the header default None
get_project_id_from_header(x_project_id) ==
    IF ~Truthy(x_project_id)
    THEN [raised |-> HTTPException(400, "X-Project-ID header is required"),
          value |-> None]
    ELSE ParseProjectId(x_project_id)

\* A query extractor that reads the last of the repeated values
fromQueryLast(values) ==
    IF values = <<>> \/ ~Truthy(values[Len(values)])
    THEN [raised |-> HTTPException(400, "project_id query parameter is required"),
          value |-> None]
    ELSE ParseProjectId(values[Len(values)])

\* get_project_id_from_query(request), values = getlist("project_id")
get_project_id_from_query(values) ==
    IF values = <<>> \/ ~Truthy(values[1])
    THEN [raised |-> HTTPException(400, "project_id query parameter is required"),
          value |-> None]
    ELSE ParseProjectId(values[1])

\* get_project_id_from_path(project_id)
get_project_id_from_path(project_id) == ParseProjectId(project_id)

\* ------------------------------------------------------------------- state
Init ==
    /\ store = [m \in ProjectModels |-> {}]
    /\ createdBy = [i \in Ids |-> None]
    /\ repo = NoRepo
    /\ last = NoCall
    /\ request = NoRequest
    /\ state = NoContext
    /\ pc = "idle"
    /\ response = NoResponse
    /\ mw = NoMiddleware
    /\ called_next = 0
    /\ db = NoDb
    /\ dep = NoDep

Table == store[repo.model]

\* A call can be made once a repository exists and the previous call has
\* returned to its caller.
Bound == repo # NoRepo /\ last = NoCall

\* ----------------------------------------------------------------- actions
\* BaseRepository(session, project_id, model)
NewRepository ==
    /\ last = NoCall
    /\ \E s \in Sessions, p \in Projects \cup {None}, m \in Models :
        LET r == RepoInit(s, p, m)
        IN  /\ repo' = IF r.raised = "" THEN r.repo ELSE repo
            /\ last' = Call("init", 0, FALSE,
                            Dict1("project_id", p) @@ Dict1("model", m) @@ Dict1("session", s),
                            NoPage, r.raised,
                            IF r.raised = "" THEN "instance" ELSE NoReturn,
                            {}, 0, <<>>)
            /\ UNCHANGED <<store, createdBy, reqVars, mwVars, db, dep>>

GetById ==
    /\ Bound
    /\ \E id \in Ids, incl \in BOOLEAN :
        LET rows == get_by_id(repo, Table, id, incl)
        IN  last' = Call("get_by_id", id, incl, EmptyDict, NoPage, "",
                         IF rows = {} THEN None ELSE "instance", rows, 0, <<"execute">>)
    /\ UNCHANGED <<store, createdBy, repo, reqVars, mwVars, db, dep>>

List ==
    /\ Bound
    /\ \E skip \in {DefaultSkip, 1}, limit \in {1, DefaultLimit},
          incl \in BOOLEAN, filters \in FilterArgs :
        LET q == list_query(repo, Table, incl, filters)
            n == PageSize(Cardinality(q), skip, limit)
        IN  \E rows \in {S \in SUBSET q : Cardinality(S) = n} :
                last' = Call("list", 0, incl, filters, <<skip, limit>>, "",
                             "list", rows, 0, <<"execute">>)
    /\ UNCHANGED <<store, createdBy, repo, reqVars, mwVars, db, dep>>

Count ==
    /\ Bound
    /\ \E incl \in BOOLEAN, filters \in FilterArgs :
        last' = Call("count", 0, incl, filters, NoPage, "", "int", {},
                     Cardinality(count_query(repo, Table, incl, filters)),
                     <<"execute">>)
    /\ UNCHANGED <<store, createdBy, repo, reqVars, mwVars, db, dep>>

Exists ==
    /\ Bound
    /\ \E id \in Ids, incl \in BOOLEAN :
        LET rows == exists_query(repo, Table, id, incl)
        IN  last' = Call("exists", id, incl, EmptyDict, NoPage, "",
                         IF rows # {} THEN "True" ELSE "False", rows, 0, <<"execute">>)
    /\ UNCHANGED <<store, createdBy, repo, reqVars, mwVars, db, dep>>

Create ==
    /\ Bound
    /\ \E data \in CreateArgs(repo.model), id \in Ids :
        LET r == create(repo, Table, id, data)
        IN  /\ r.raised = "" => id \notin UsedIds
            /\ store' = [store EXCEPT ![repo.model] = r.table]
            /\ createdBy' = IF r.raised = ""
                            THEN [createdBy EXCEPT ![id] = repo.project_id]
                            ELSE createdBy
            /\ last' = Call("create", IF r.raised = "" THEN id ELSE 0, FALSE, data,
                            NoPage, r.raised, Returned(r), r.rows, 0, r.calls)
    /\ UNCHANGED <<repo, reqVars, mwVars, db, dep>>

Update ==
    /\ Bound
    /\ \E id \in Ids, data \in UpdateArgs(repo.model) :
        LET r == update(repo, Table, id, data)
        IN  /\ store' = [store EXCEPT ![repo.model] = r.table]
            /\ last' = Call("update", id, FALSE, data, NoPage, r.raised,
                            Returned(r), r.rows, 0, r.calls)
    /\ UNCHANGED <<createdBy, repo, reqVars, mwVars, db, dep>>

SoftDelete ==
    /\ Bound
    /\ \E id \in Ids, now \in Times :
        LET r == soft_delete(repo, Table, id, now)
        IN  /\ store' = [store EXCEPT ![repo.model] = r.table]
            /\ last' = Call("soft_delete", id, FALSE, EmptyDict, NoPage, r.raised,
                            Returned(r), r.rows, 0, r.calls)
    /\ UNCHANGED <<createdBy, repo, reqVars, mwVars, db, dep>>

Delete ==
    /\ Bound
    /\ \E id \in Ids :
        LET r == delete(repo, Table, id)
        IN  /\ store' = [store EXCEPT ![repo.model] = r.table]
            /\ createdBy' = IF r.value = "True"
                            THEN [createdBy EXCEPT ![id] = None] ELSE createdBy
            /\ last' = Call("delete", id, FALSE, EmptyDict, NoPage, "",
                            r.value, {}, 0, r.calls)
    /\ UNCHANGED <<repo, reqVars, mwVars, db, dep>>

\* The awaiting caller receives the outcome; the next call can be made.
Return ==
    /\ last # NoCall
    /\ last' = NoCall
    /\ UNCHANGED <<store, createdBy, repo, reqVars, mwVars, db, dep>>

Next ==
    \/ NewRepository
    \/ GetById
    \/ List
    \/ Count
    \/ Exists
    \/ Create
    \/ Update
    \/ SoftDelete
    \/ Delete
    \/ Return

Spec == Init /\ [][Next]_vars

\* ------------------------------------------------- request pipeline actions
\* A request arrives for a route that depends on the repository factory of a
\* repository class bound to model m.
Receive ==
    /\ pc = "idle"
    /\ \E h \in SourceValues, q \in SourceValues, p \in SourceValues,
          m \in Models :
        request' = [header |-> h, query |-> q, path |-> p, model |-> m]
    /\ state' = NoContext
    /\ response' = NoResponse
    /\ pc' = "middleware"
    /\ mw' \in Middlewares
    /\ called_next' = 0
    /\ UNCHANGED <<repoVars, db, dep>>

\* ProjectContextMiddleware.dispatch up to call_next
Dispatch ==
    /\ pc = "middleware"
    /\ mw.class = PlainMiddleware
    /\ LET d == dispatch(request, state)
       IN  /\ state' = d.state
           /\ response' = d.raised
           /\ called_next' = IF d.call_next THEN called_next + 1 ELSE called_next
           /\ pc' = IF d.call_next THEN "route" ELSE "done"
    /\ UNCHANGED <<request, mw, repoVars, db, dep>>

\* ConfiguredProjectContextMiddleware.dispatch up to call_next
DispatchConfigured ==
    /\ pc = "middleware"
    /\ mw.class = ConfiguredMiddleware
    /\ LET d == configured_dispatch(request, state, mw.require_project_id,
                                    mw.default_project_id)
       IN  /\ state' = d.state
           /\ response' = d.raised
           /\ called_next' = IF d.call_next THEN called_next + 1 ELSE called_next
           /\ pc' = IF d.call_next THEN "route" ELSE "done"
    /\ UNCHANGED <<request, mw, repoVars, db, dep>>

\* The route's dependencies are resolved: the repository factory
ResolveFactory ==
    /\ pc = "route"
    /\ \E s \in Sessions : response' = resolve_factory(state, s, request.model)
    /\ pc' = "done"
    /\ UNCHANGED <<request, state, mwVars, repoVars, db, dep>>

\* The response is sent and the request object is dropped; the next request
\* can arrive
Respond ==
    /\ pc = "done"
    /\ pc' = "idle"
    /\ request' = NoRequest
    /\ state' = NoContext
    /\ response' = NoResponse
    /\ mw' = NoMiddleware
    /\ called_next' = 0
    /\ UNCHANGED <<repoVars, db, dep>>

\* ------------------------------------------------ session context actions
\* session = None; async with AsyncSessionLocal() as session: the factory's
\* __aenter__ returns the session or raises, and session is bound only on return
DbEnter ==
    /\ db.pc = "idle"
    /\ \E via \in EntryPoints, e \in AwaitOutcomes :
          db' = [NoDb EXCEPT !.via = via,
                             !.events = <<"aenter">>,
                             !.enter_exc = e,
                             !.exc = e,
                             !.session = IF e = NoExc THEN "session" ELSE None,
                             !.pc = IF e = NoExc THEN "yield" ELSE "except"]
    /\ UNCHANGED <<repoVars, reqVars, mwVars, dep>>

\* yield session: the consumer's body runs; what it raises is thrown in at the
\* yield
DbBody ==
    /\ db.pc = "yield"
    /\ \E e \in BodyOutcomes :
          db' = [db EXCEPT !.events = Append(@, "body"),
                           !.body_exc = e,
                           !.exc = e,
                           !.pc = AfterYield(e)]
    /\ UNCHANGED <<repoVars, reqVars, mwVars, dep>>

\* await session.commit()
DbCommit ==
    /\ db.pc = "commit"
    /\ \E e \in AwaitOutcomes :
          db' = [db EXCEPT !.events = Append(@, "commit"),
                           !.commit_exc = e,
                           !.exc = e,
                           !.pc = "aexit"]
    /\ UNCHANGED <<repoVars, reqVars, mwVars, dep>>

\* The async with block is left: __aexit__ of the session factory's context
\* manager is awaited; it suppresses nothing
DbAexit ==
    /\ db.pc = "aexit"
    /\ db' = [db EXCEPT !.events = Append(@, "aexit"), !.pc = "except"]
    /\ UNCHANGED <<repoVars, reqVars, mwVars, dep>>

\* The except clauses
DbExcept ==
    /\ db.pc = "except"
    /\ LET x == ExceptClause(db.exc, db.session)
       IN  db' = [db EXCEPT !.exc = x.raised,
                            !.events = @ \o x.calls,
                            !.log = @ \o x.log,
                            !.pc = "finally"]
    /\ UNCHANGED <<repoVars, reqVars, mwVars, dep>>

\* The finally clause; afterwards the exception in flight, if any, reaches the
\* caller
DbFinally ==
    /\ db.pc = "finally"
    /\ \E c \in IF db.session # None THEN CloseOutcomes ELSE {NoExc} :
          LET f == FinallyClause(db.session, c)
          IN  db' = [db EXCEPT !.exc = IF f.raised # NoExc THEN f.raised ELSE @,
                               !.events = @ \o f.calls,
                               !.log = @ \o f.log,
                               !.close_exc = c,
                               !.pc = "done"]
    /\ UNCHANGED <<repoVars, reqVars, mwVars, dep>>

\* The context manager has exited; the next request opens its own
DbReset ==
    /\ db.pc = "done"
    /\ db' = NoDb
    /\ UNCHANGED <<repoVars, reqVars, mwVars, dep>>

NextDb ==
    \/ DbEnter
    \/ DbBody
    \/ DbCommit
    \/ DbAexit
    \/ DbExcept
    \/ DbFinally
    \/ DbReset

DbSpec == Init /\ [][NextDb]_vars

\* -------------------------------------------- dependency function actions
\* await app.deps.context.get_project_context(request)
ContextGetProjectContext ==
    /\ dep = NoDep
    /\ \E st \in StateValues, unexpected \in BOOLEAN :
          LET c == context_get_project_context(st, unexpected)
          IN  dep' = [fn |-> "context.get_project_context", st |-> st,
                      unexpected |-> unexpected, raised |-> c.raised,
                      context |-> c.context]
    /\ UNCHANGED <<repoVars, reqVars, mwVars, db>>

\* await app.deps.context.get_project_id(request)
ContextGetProjectId ==
    /\ dep = NoDep
    /\ \E st \in StateValues, unexpected \in BOOLEAN :
          LET c == context_get_project_id(st, unexpected)
          IN  dep' = [fn |-> "context.get_project_id", st |-> st,
                      unexpected |-> unexpected, raised |-> c.raised,
                      project_id |-> c.project_id]
    /\ UNCHANGED <<repoVars, reqVars, mwVars, db>>

\* factory(session, context) of get_repository_factory(repository_class), called
\* with its two dependencies already resolved
Factory ==
    /\ dep = NoDep
    /\ \E cls \in RepositoryClasses, session \in Sessions,
          project_id \in Projects \cup {None} :
          LET f == factory(session, ProjectContext(ContextClass, project_id), cls)
          IN  dep' = [fn |-> "factory", cls |-> cls, session |-> session,
                      project_id |-> project_id,
                      raised |-> IF f.status = 200 THEN NoExc
                                 ELSE HTTPException(f.status, f.detail),
                      repo |-> f.repo]
    /\ UNCHANGED <<repoVars, reqVars, mwVars, db>>

\* get_repository(repository_class, session, project_id)
GetRepository ==
    /\ dep = NoDep
    /\ \E cls \in RepositoryClasses, session \in Sessions,
          project_id \in Projects \cup {None} :
          LET g == get_repository(cls, session, project_id)
          IN  dep' = [fn |-> "get_repository", cls |-> cls, session |-> session,
                      project_id |-> project_id, raised |-> g.raised,
                      repo |-> g.repo]
    /\ UNCHANGED <<repoVars, reqVars, mwVars, db>>

\* Depends(get_project_id_from_header)
FromHeader ==
    /\ dep = NoDep
    /\ \E x \in SourceValues :
          LET r == get_project_id_from_header(x)
          IN  dep' = [fn |-> "get_project_id_from_header", arg |-> x,
                      raised |-> r.raised, value |-> r.value]
    /\ UNCHANGED <<repoVars, reqVars, mwVars, db>>

\* Depends(get_project_id_from_query)
FromQuery ==
    /\ dep = NoDep
    /\ \E values \in QueryLists :
          LET r == get_project_id_from_query(values)
          IN  dep' = [fn |-> "get_project_id_from_query", values |-> values,
                      raised |-> r.raised, value |-> r.value]
    /\ UNCHANGED <<repoVars, reqVars, mwVars, db>>

\* Depends(get_project_id_from_path)
FromPath ==
    /\ dep = NoDep
    /\ \E x \in StringValues :
          LET r == get_project_id_from_path(x)
          IN  dep' = [fn |-> "get_project_id_from_path", arg |-> x,
                      raised |-> r.raised, value |-> r.value]
    /\ UNCHANGED <<repoVars, reqVars, mwVars, db>>

\* The dependency function has returned or raised; its caller goes on
DepReturn ==
    /\ dep # NoDep
    /\ dep' = NoDep
    /\ UNCHANGED <<repoVars, reqVars, mwVars, db>>

NextDeps ==
    \/ ContextGetProjectContext
    \/ ContextGetProjectId
    \/ Factory
    \/ GetRepository
    \/ FromHeader
    \/ FromQuery
    \/ FromPath
    \/ DepReturn

DepsSpec == Init /\ [][NextDeps]_vars

NextRequest ==
    \/ Receive
    \/ Dispatch
    \/ DispatchConfigured
    \/ ResolveFactory
    \/ Respond

RequestSpec == Init /\ [][NextRequest]_vars

\* ------------------------------------------------------------- properties
\* The rows of the current repository's table with the id of the last call.
RowsWithId == {r \in Table : r.id = last.id}
Foreign(r) == r.project_id # repo.project_id
IsDeleted(r) == hasattr(repo.model, "deleted_at") /\ r.deleted_at # DeletedNone

\* C1 Read isolation: get_by_id, list and exists on the repository bound to
\* project P return only rows whose project_id is P, count counts no more than
\* P's rows, and a row of another project is not found (get_by_id returns None,
\* exists returns False) when its id is passed.
C1_ReadIsolation ==
    /\ last.op \in {"get_by_id", "list", "exists"} =>
          /\ \A r \in last.rows : r \in Table /\ ~Foreign(r)
          /\ last.raised = ""
    /\ last.op = "count" =>
          last.count <= Cardinality({r \in Table : ~Foreign(r)})
    /\ last.op = "get_by_id" /\ (\E r \in RowsWithId : Foreign(r)) =>
          last.value = None /\ last.rows = {}
    /\ last.op = "exists" /\ (\E r \in RowsWithId : Foreign(r)) =>
          last.value = "False"

\* get_by_id was called with the id of a live row of another project.
C1_Witness ==
    /\ last.op = "get_by_id"
    /\ last.value = None
    /\ \E r \in RowsWithId : Foreign(r) /\ ~IsDeleted(r)

\* The call being made in a step: the repository is idle before it.
Calling(op) == last = NoCall /\ last'.op = op
TableBefore == store[repo.model]
TargetBefore == {r \in TableBefore : r.id = last'.id}

\* C2 Write isolation: update, soft_delete and delete on the repository bound to
\* project P with the id of a row of project Q # P leave the whole store
\* unchanged, and a call that returns (one that is not rejected with ValueError
\* or AttributeError before reaching the database) returns None, None and False.
C2_WriteIsolation ==
    [][(/\ last = NoCall
        /\ last'.op \in {"update", "soft_delete", "delete"}
        /\ \E r \in TargetBefore : r.project_id # repo.project_id)
       => /\ store' = store
          /\ last'.rows = {}
          /\ last'.raised = "" =>
                last'.value = (IF last'.op = "delete" THEN "False" ELSE None)]_vars

\* update returned None for the id of a live row of another project.
C2_Witness ==
    /\ last.op = "update"
    /\ last.raised = ""
    /\ last.value = None
    /\ \E r \in RowsWithId : Foreign(r) /\ ~IsDeleted(r)

\* C3 project_id is injected on create and never changes: every row in the
\* store carries the project_id of the repository that created it.
C3_ProjectIdOfCreator ==
    \A m \in ProjectModels : \A r \in store[m] : r.project_id = createdBy[r.id]

\* An update that passed the repository's own project_id succeeded, and the
\* row it returned still carries the project_id of the repository that created it.
C3_Witness ==
    /\ last.op = "update"
    /\ last.value = "instance"
    /\ "project_id" \in DOMAIN last.data
    /\ \A r \in last.rows : r.project_id = createdBy[r.id]

\* What update must make of row r when the call passes data.
Applied(r, data) ==
    [k \in DOMAIN r |->
        IF k # "project_id" /\ k \in DOMAIN data THEN data[k] ELSE r[k]]

\* C4 create or update whose data carries a project_id other than the
\* repository's raises ValueError with no session call made and the store
\* unchanged; with the repository's own project_id, create adds the instance
\* and update applies the other fields and leaves project_id as it was.
C4_ProjectIdCheck ==
    [][(/\ last = NoCall
        /\ last'.op \in {"create", "update"}
        /\ "project_id" \in DOMAIN last'.data)
       => IF last'.data["project_id"] # repo.project_id
          THEN /\ last'.raised = "ValueError"
               /\ last'.calls = <<>>
               /\ store' = store
          ELSE /\ last'.raised = ""
               /\ last'.op = "create" =>
                     /\ Cardinality(last'.rows) = 1
                     /\ \A r \in last'.rows :
                           /\ r.project_id = repo.project_id
                           /\ r.name = last'.data["name"]
                           /\ r \notin TableBefore
                     /\ store' = [store EXCEPT ![repo.model] = @ \cup last'.rows]
               /\ last'.op = "update" =>
                     LET hit == UpdateMatch(repo, TableBefore, last'.id)
                     IN  /\ last'.rows = {Applied(r, last'.data) : r \in hit}
                         /\ store' = [store EXCEPT ![repo.model] =
                                          (@ \ hit) \cup last'.rows]]_vars

\* update was refused with ValueError for the id of a live row of the
\* repository's own project.
C4_Witness ==
    /\ last.op = "update"
    /\ last.raised = "ValueError"
    /\ last.calls = <<>>
    /\ \E r \in RowsWithId : ~Foreign(r) /\ ~IsDeleted(r)

\* C5 End-to-end project injection: once the middleware has stored a project
\* context for a request, the dependency of get_repository_factory (for a
\* repository class of a project-scoped model) answers without an HTTP error
\* with a repository bound to the id the middleware extracted.
C5_EndToEndInjection ==
    (/\ pc = "done"
     /\ state # NoContext
     /\ request.model \in ProjectModels)
    => /\ response.status = 200
       /\ response.repo.project_id = state.project_id

\* Whether the name filter of the last list or count call lets row r through.
PassesFilters(r) ==
    /\ "name" \in DOMAIN last.data => r.name = last.data["name"]
    /\ "project_id" \in DOMAIN last.data => r.project_id = last.data["project_id"]

\* C6 Soft-delete visibility: a successful soft_delete leaves the row in the
\* store with deleted_at set; a soft-deleted row of the repository's project is
\* left out by get_by_id, list, count and exists when include_deleted is False
\* and is found by each of them when include_deleted is True (by list when it
\* passes the call's filters, on the default page of 100 rows from row 0).
C6_SoftDeleteVisibility ==
    /\ last.op = "soft_delete" /\ last.value = "instance" =>
          \E r \in RowsWithId : ~Foreign(r) /\ IsDeleted(r) /\ last.rows = {r}
    /\ last.op \in {"get_by_id", "exists"} =>
          \A r \in RowsWithId : ~Foreign(r) /\ IsDeleted(r) =>
              IF last.include_deleted
              THEN last.rows = {r} /\ last.value \in {"instance", "True"}
              ELSE last.rows = {} /\ last.value \in {None, "False"}
    /\ last.op = "list" =>
          \A r \in Table : ~Foreign(r) /\ IsDeleted(r) =>
              IF last.include_deleted
              THEN last.page = NoPage /\ PassesFilters(r) => r \in last.rows
              ELSE r \notin last.rows
    /\ last.op = "count" =>
          last.count = Cardinality({r \in Table :
              /\ ~Foreign(r)
              /\ PassesFilters(r)
              /\ last.include_deleted \/ ~IsDeleted(r)})

\* list(include_deleted=True) returned a soft-deleted row.
C6_Witness ==
    /\ last.op = "list"
    /\ last.include_deleted
    /\ \E r \in last.rows : IsDeleted(r)

\* C7 update on a row that is already soft-deleted changes nothing in the
\* store, and an update that returns (one not refused with ValueError) returns
\* None.
C7_UpdateOfDeleted ==
    [][(/\ Calling("update")
        /\ hasattr(repo.model, "deleted_at")
        /\ \E r \in TargetBefore : r.deleted_at # DeletedNone)
       => /\ store' = store
          /\ last'.rows = {}
          /\ last'.raised = "" => last'.value = None]_vars

\* update returned None for the id of a soft-deleted row of its own project.
C7_Witness ==
    /\ last.op = "update"
    /\ last.raised = ""
    /\ last.value = None
    /\ \E r \in RowsWithId : ~Foreign(r) /\ IsDeleted(r)

\* C8 delete returns True and removes the row when a row with that id exists
\* in the repository's project (soft-deleted or not), and returns False and
\* leaves the store unchanged otherwise.
C8_Delete ==
    [][Calling("delete") =>
        LET mine == {r \in TargetBefore : r.project_id = repo.project_id}
        IN  IF mine # {}
            THEN /\ last'.value = "True"
                 /\ store' = [store EXCEPT ![repo.model] = @ \ mine]
                 /\ \A r \in store'[repo.model] : r.id # last'.id
            ELSE /\ last'.value = "False"
                 /\ store' = store]_vars

\* delete returned True and no row with that id is left in the table.
C8_Witness ==
    /\ last.op = "delete"
    /\ last.value = "True"
    /\ RowsWithId = {}
    /\ Table # {}

\* C9 soft_delete on a repository whose model has no deleted_at raises
\* AttributeError for every id, awaits no session call and changes no row.
C9_SoftDeleteUnsupported ==
    [][(Calling("soft_delete") /\ ~hasattr(repo.model, "deleted_at"))
       => /\ last'.raised = "AttributeError"
          /\ last'.calls = <<>>
          /\ store' = store]_vars

\* soft_delete raised AttributeError for the id of a row of its own project.
C9_Witness ==
    /\ last.op = "soft_delete"
    /\ last.raised = "AttributeError"
    /\ \E r \in RowsWithId : ~Foreign(r)

\* C10 BaseRepository(session, project_id, model) raises ValueError if
\* project_id is None or the model has no project_id attribute, and otherwise
\* holds exactly the session, project_id and model given; no repository has a
\* None project_id.
C10_Constructor ==
    [][Calling("init") =>
        LET a == last'.data
        IN  /\ IF a["project_id"] = None \/ ~hasattr(a["model"], "project_id")
               THEN last'.raised = "ValueError" /\ repo' = repo
               ELSE /\ last'.raised = ""
                    /\ repo'.session = a["session"]
                    /\ repo'.project_id = a["project_id"]
                    /\ repo'.model = a["model"]
            /\ repo' # NoRepo => repo'.project_id # None]_vars

\* A construction with project_id None was refused while a repository exists.
C10_Witness ==
    /\ last.op = "init"
    /\ last.raised = "ValueError"
    /\ last.data["project_id"] = None
    /\ hasattr(last.data["model"], "project_id")
    /\ repo # NoRepo

\* ------------------------------------------------- middleware properties
\* The value of the highest-priority source that is present and non-empty
HighestPresent(req) ==
    IF Truthy(req.header) THEN req.header
    ELSE IF Truthy(req.query) THEN req.query
    ELSE IF Truthy(req.path) THEN req.path
    ELSE Absent

\* Every source that is present and non-empty holds a valid UUID
AllValid(req) ==
    \A s \in {req.header, req.query, req.path} : Truthy(s) => UUID(s) # "ValueError"

\* The middleware's dispatch has run for the current request
Dispatched == pc \in {"route", "done"}

\* C11: ProjectContextMiddleware stores the id of the highest-priority source
\* (header, then query, then path) that is present and non-empty, for every
\* combination of absent, empty and valid values.
C11_SourcePriority ==
    (Dispatched /\ mw.class = PlainMiddleware /\ AllValid(request)
        /\ HighestPresent(request) # Absent)
    => /\ state = ProjectContext(ContextClass, UUID(HighestPresent(request)))
       /\ called_next = 1

\* An empty header, a query parameter for p2 and a path parameter for p1: the
\* query parameter won
C11_Witness ==
    /\ Dispatched
    /\ mw.class = PlainMiddleware
    /\ request.header = ""
    /\ request.query = UuidP2
    /\ request.path = UuidP1
    /\ state.project_id = "p2"

\* C12: in both middleware classes, when the highest-priority present, non-empty
\* source is not a valid UUID, HTTP 400 is raised, call_next is never awaited and
\* no project context is stored, whatever the lower-priority sources hold.
C12_InvalidUuidRejected ==
    (Dispatched /\ UUID(HighestPresent(request)) = "ValueError"
        /\ HighestPresent(request) # Absent)
    => /\ pc = "done"
       /\ response.status = 400
       /\ called_next = 0
       /\ state = NoContext

\* The configured middleware with a default rejected an invalid header although
\* the query parameter held a valid UUID
C12_Witness ==
    /\ pc = "done"
    /\ mw.class = ConfiguredMiddleware
    /\ ~mw.require_project_id
    /\ mw.default_project_id # None
    /\ request.header = NotUuid
    /\ request.query = UuidP1
    /\ response.status = 400
    /\ called_next = 0

\* C13: when every source is absent or empty, ProjectContextMiddleware leaves
\* request.state.project_context unset, raises nothing and awaits call_next
\* exactly once.
C13_NoProjectId ==
    (Dispatched /\ mw.class = PlainMiddleware /\ HighestPresent(request) = Absent)
    => /\ state = NoContext
       /\ called_next = 1
       /\ pc = "route" => response = NoResponse

\* A request with an empty header and nothing else went on to the route
C13_Witness ==
    /\ pc = "route"
    /\ mw.class = PlainMiddleware
    /\ request.header = ""
    /\ request.query = Absent
    /\ request.path = Absent
    /\ called_next = 1

\* C14: the configured middleware, for a request without a project id, raises
\* HTTP 400 without awaiting call_next when require_project_id is set (default or
\* not), otherwise stores the default if there is one and leaves the context
\* unset if not; an id extracted from the request wins over the default.
C14_Configured ==
    (Dispatched /\ mw.class = ConfiguredMiddleware /\ AllValid(request))
    => IF HighestPresent(request) # Absent
       THEN /\ state = ProjectContext(ContextClass, UUID(HighestPresent(request)))
            /\ called_next = 1
       ELSE IF mw.require_project_id
       THEN /\ pc = "done"
            /\ response.status = 400
            /\ called_next = 0
            /\ state = NoContext
       ELSE IF mw.default_project_id # None
       THEN /\ state = ProjectContext(ContextClass, mw.default_project_id)
            /\ called_next = 1
       ELSE /\ state = NoContext
            /\ called_next = 1

\* A request without a project id was rejected although a default is configured
C14_Witness ==
    /\ pc = "done"
    /\ mw.class = ConfiguredMiddleware
    /\ mw.require_project_id
    /\ mw.default_project_id = "p1"
    /\ HighestPresent(request) = Absent
    /\ response.status = 400
    /\ called_next = 0

\* --------------------------------------------- session context properties
\* How many times the context manager made the call ev
Calls(ev) == Cardinality({i \in DOMAIN db.events : db.events[i] = ev})

\* Every occurrence of a comes before every occurrence of b
Before(a, b) ==
    \A i, j \in DOMAIN db.events :
        (db.events[i] = a /\ db.events[j] = b) => i < j

\* _get_db_session_context has exited; db.exc is what its caller receives
Exited == db.pc = "done"

\* The consumer's body has run and finished without raising
BodyFinished == Calls("body") = 1 /\ db.body_exc = NoExc

\* The exception raised while the session was open, by the body or by commit
RaisedWhileOpen ==
    IF db.body_exc # NoExc THEN db.body_exc ELSE db.commit_exc

\* C15: on the success path (the consumer finishes without raising) commit is
\* called exactly once, after the body and before close, and while nothing has
\* failed rollback is never called.
C15_SuccessPath ==
    /\ (Exited /\ BodyFinished)
       => /\ Calls("commit") = 1
          /\ Before("body", "commit")
          /\ Before("commit", "close")
          /\ Calls("close") = 1
    /\ (BodyFinished /\ db.commit_exc = NoExc) => Calls("rollback") = 0
    /\ (Exited /\ BodyFinished /\ db.commit_exc = NoExc)
       => db.events = <<"aenter", "body", "commit", "aexit", "close">>

\* The context manager exited normally after body, commit and close
C15_Witness ==
    /\ Exited
    /\ db.via = "get_db_session"
    /\ BodyFinished
    /\ db.commit_exc = NoExc
    /\ db.close_exc = NoExc
    /\ db.exc = NoExc
    /\ Calls("commit") = 1

\* C16: when the body or commit raises SQLAlchemyError the session is rolled
\* back exactly once and the caller receives HTTPException 500 'Database
\* operation failed...'; for any other Exception the session is rolled back
\* exactly once and the caller receives HTTPException 500 'An unexpected error
\* occurred...'.
C16_ErrorPath ==
    (Exited /\ db.session # None /\ IsException(RaisedWhileOpen))
    => /\ Calls("rollback") = 1
       /\ db.exc = HTTPException(500, IF IsSQLAlchemyError(RaisedWhileOpen)
                                       THEN DatabaseFailed ELSE UnexpectedError)

\* commit raised SQLAlchemyError; the session was rolled back and the caller got
\* the 500
C16_Witness ==
    /\ Exited
    /\ BodyFinished
    /\ db.commit_exc = SQLAlchemyError
    /\ Calls("rollback") = 1
    /\ db.exc = HTTPException(500, DatabaseFailed)

\* C17: when a BaseException that is not an Exception (CancelledError) is raised
\* while the session is open, the session is rolled back exactly once, closed
\* exactly once, and the same exception reaches the caller.
C17_Cancellation ==
    (Exited /\ db.session # None /\ RaisedWhileOpen = CancelledError)
    => /\ Calls("rollback") = 1
       /\ Calls("close") = 1
       /\ db.exc = CancelledError

\* C18: on every path on which a session was obtained, close has been called
\* exactly once when the context manager exits, and never earlier.
C18_ClosedOnce ==
    /\ (Exited /\ db.session # None) => Calls("close") = 1
    /\ ~Exited => Calls("close") = 0

\* commit raised an Exception other than SQLAlchemyError and the session was
\* closed once
C18_Witness ==
    /\ Exited
    /\ db.session # None
    /\ db.commit_exc = OtherException
    /\ Calls("close") = 1

\* C19: when __aenter__ of the session factory raises SQLAlchemyError the caller
\* receives HTTPException 500 'Database operation failed...' and rollback,
\* commit and close are never called.
C19_EnterFails ==
    db.enter_exc = SQLAlchemyError
    => /\ Calls("rollback") = 0
       /\ Calls("commit") = 0
       /\ Calls("close") = 0
       /\ db.session = None
       /\ Exited => db.exc = HTTPException(500, DatabaseFailed)

\* Obtaining the session failed and the caller got the 500
C19_Witness ==
    /\ Exited
    /\ db.enter_exc = SQLAlchemyError
    /\ db.exc = HTTPException(500, DatabaseFailed)
    /\ db.events = <<"aenter">>

\* C20: when body and commit succeed and close raises, the error is logged as a
\* warning and the context manager exits normally.
C20_CloseErrorSwallowed ==
    (Exited /\ BodyFinished /\ Calls("commit") = 1 /\ db.commit_exc = NoExc
        /\ db.close_exc # NoExc)
    => /\ db.exc = NoExc
       /\ db.log = <<"warning">>
       /\ Calls("rollback") = 0

\* close raised after a successful commit and the caller saw no error
C20_Witness ==
    /\ Exited
    /\ BodyFinished
    /\ Calls("commit") = 1
    /\ db.commit_exc = NoExc
    /\ db.close_exc = OtherException
    /\ db.exc = NoExc
    /\ db.log = <<"warning">>

\* ------------------------------------------- dependency function properties
\* The dependency function fn has been called and has returned or raised
Called(fn) == dep.fn = fn

\* C21: app.deps.context.get_project_context maps every request state to one
\* outcome: no attribute -> 500 'Project context not available'; not a
\* ProjectContext -> 500 'Invalid project context configuration'; project_id
\* None -> 400; an unexpected error -> 500 'Failed to extract project context';
\* otherwise the stored context, unchanged; get_project_id returns its project_id.
C21_ContextDependency ==
    /\ Called("context.get_project_context")
       => IF dep.unexpected
          THEN dep.raised = HTTPException(500, "Failed to extract project context.")
          ELSE IF dep.st = NoContext
          THEN dep.raised = HTTPException(500, ContextNotAvailable)
          ELSE IF dep.st.cls # ContextClass
          THEN dep.raised = HTTPException(500, "Invalid project context configuration.")
          ELSE IF dep.st.project_id = None
          THEN dep.raised.status = 400
          ELSE dep.raised = NoExc /\ dep.context = dep.st
    /\ Called("context.get_project_id")
       => IF ~dep.unexpected /\ dep.st.cls = ContextClass /\ dep.st.project_id # None
          THEN dep.raised = NoExc /\ dep.project_id = dep.st.project_id
          ELSE dep.raised.type = "HTTPException" /\ dep.project_id = None

\* get_project_context was called on a request without project_context and
\* raised the 500
C21_Witness ==
    /\ Called("context.get_project_context")
    /\ dep.st = NoContext
    /\ ~dep.unexpected
    /\ dep.raised = HTTPException(500, ContextNotAvailable)

\* C22: app.deps.project.get_project_context answers 400 when the project id
\* was not provided, and whenever a project id was validly provided and stored
\* (by the middleware) it returns the stored context and raises no 500.
C22_ProjectDependency ==
    (Dispatched /\ called_next = 1)
    => LET c == project_get_project_context(state)
       IN  IF state = NoContext
           THEN c.raised.status = 400
           ELSE c.raised.status = 0 /\ c.context = state

\* The constructor of the repository class refuses the arguments with ValueError
RefusedByConstructor ==
    dep.cls # BrokenRepository
    /\ (dep.project_id = None \/ ~hasattr(dep.cls, "project_id"))

\* C23: the factory turns a ValueError of the repository constructor into
\* HTTPException 500 'Failed to initialize repository' and any other exception
\* into HTTPException 500 'Failed to create repository instance.'; get_repository
\* re-raises the ValueError and converts any other exception into that same 500;
\* on success both return a repository holding the given session and project id.
C23_CreationErrors ==
    /\ Called("factory")
       => IF dep.cls = BrokenRepository
          THEN dep.raised = HTTPException(500, "Failed to create repository instance.")
          ELSE IF RefusedByConstructor
          THEN dep.raised = HTTPException(500, "Failed to initialize repository")
          ELSE /\ dep.raised = NoExc
               /\ dep.repo.session = dep.session
               /\ dep.repo.project_id = dep.project_id
               /\ dep.repo.model = dep.cls
    /\ Called("get_repository")
       => IF dep.cls = BrokenRepository
          THEN dep.raised = HTTPException(500, "Failed to create repository instance.")
          ELSE IF RefusedByConstructor
          THEN dep.raised = Exc("ValueError")
          ELSE /\ dep.raised = NoExc
               /\ dep.repo.session = dep.session
               /\ dep.repo.project_id = dep.project_id
               /\ dep.repo.model = dep.cls
    /\ (Called("factory") \/ Called("get_repository"))
       => (dep.raised # NoExc => dep.repo = NoRepo)

\* get_repository let the constructor's ValueError for a model without
\* project_id through
C23_Witness ==
    /\ Called("get_repository")
    /\ dep.cls = UserModel
    /\ dep.project_id = "p1"
    /\ dep.raised = Exc("ValueError")

\* The project a well-formed UUID string names; None for every other value
WellFormed(s) ==
    CASE s \in {UuidP1, UuidP1Braces} -> "p1"
      [] s = UuidP2 -> "p2"
      [] OTHER -> None

\* The outcome the extractors owe for the raw value s, required telling whether
\* a missing or empty value has its own error
Extracted(s, required) ==
    IF WellFormed(s) # None
    THEN dep.raised = NoExc /\ dep.value = WellFormed(s)
    ELSE /\ dep.raised.type = "HTTPException"
         /\ dep.raised.status = 400
         /\ dep.value = None
         /\ dep.raised.detail = IF s \in {Absent, ""} /\ required # ""
                                THEN required ELSE "Invalid project ID format"

\* C24: the header, query and path extractors return the parsed UUID for a
\* well-formed value and raise HTTPException 400 otherwise: 'is required' for a
\* missing or empty header or query value, 'Invalid project ID format' for a
\* string that is not a UUID; of repeated query values only the first counts.
C24_Extractors ==
    /\ Called("get_project_id_from_header")
       => Extracted(dep.arg, "X-Project-ID header is required")
    /\ Called("get_project_id_from_query")
       => Extracted(IF dep.values = <<>> THEN Absent ELSE dep.values[1],
                    "project_id query parameter is required")
    /\ Called("get_project_id_from_path") => Extracted(dep.arg, "")

\* A query string with a valid first value and an invalid second one gave the
\* first
C24_Witness ==
    /\ Called("get_project_id_from_query")
    /\ dep.values = <<UuidP2, NotUuid>>
    /\ dep.raised = NoExc
    /\ dep.value = "p2"

\* C25: any Exception raised by the consumer's body while the session is open,
\* an HTTPException with a 4xx status included, causes rollback, no commit, and
\* an HTTPException with status 500 in its place.
C25_BodyErrorBecomes500 ==
    (Calls("body") = 1 /\ IsException(db.body_exc))
    => /\ Calls("commit") = 0
       /\ Exited
          => /\ Calls("rollback") = 1
             /\ Before("body", "rollback")
             /\ db.exc.type = "HTTPException"
             /\ db.exc.status = 500
             /\ db.exc # db.body_exc

\* The route raised a 404 and the caller of the context manager got a 500
C25_Witness ==
    /\ Exited
    /\ db.via = "get_db_session"
    /\ db.body_exc = HTTPException(404, "Not found")
    /\ db.exc = HTTPException(500, UnexpectedError)
    /\ Calls("rollback") = 1
    /\ Calls("commit") = 0

\* C26: soft deletion is irreversible through the repository: once a row's
\* deleted_at is set, no create, update or soft_delete on any repository changes
\* any of its fields; the only call that affects the row is a delete, which
\* removes it.
C26_SoftDeleteIrreversible ==
    [][\A m \in ProjectModels : hasattr(m, "deleted_at") =>
         \A r \in store[m] : r.deleted_at # DeletedNone =>
            \/ r \in store'[m]
            \/ /\ Calling("delete")
               /\ repo.model = m
               /\ last'.id = r.id
               /\ repo.project_id = r.project_id
               /\ \A x \in store'[m] : x.id # r.id]_vars

\* soft_delete was called again on a soft-deleted row of the repository's own
\* project and returned None; the row is still there
C26_Witness ==
    /\ last.op = "soft_delete"
    /\ last.raised = ""
    /\ last.value = None
    /\ \E r \in RowsWithId : ~Foreign(r) /\ IsDeleted(r)

\* Every table keeps its primary key unique and holds well-formed rows.
TypeOK ==
    /\ \A m \in ProjectModels : \A r1, r2 \in store[m] : r1.id = r2.id => r1 = r2
    /\ \A m \in ProjectModels : \A r \in store[m] :
          r.id \in Ids /\ r.project_id \in Projects /\ r.name \in Names
    /\ repo # NoRepo => repo.project_id \in Projects

====
